---- MODULE Spec2Model ----
(***************************************************************************)
(* TextGuardEngine (PlagiarismDetector1.py): shingle hashing, winnowing,   *)
(* the single-probe membership filter, the match pass over document B and  *)
(* the min-heap Top-K ranking.                                             *)
(*                                                                         *)
(* Text is a sequence of character codes (ord values); a token and a       *)
(* phrase are such sequences too.  A set-valued bloom_filter holds the     *)
(* indices whose flag is 1.  hash_to_phrase is a function whose DOMAIN is  *)
(* the set of keys of the dict.  match_freq_map is the dict in insertion   *)
(* order: a sequence of <<hash, count>> pairs.                             *)
(***************************************************************************)
EXTENDS Integers, Sequences, FiniteSets, TLC

VARIABLES n, w, bloom_filter, hash_to_phrase, pc, words_a, words_b, all_hashes_a, fingerprints_a, all_hashes_b, pos, matches, bloom_skips, match_freq_map, result, scans, call

vars == <<n, w, bloom_filter, hash_to_phrase, pc, words_a, words_b, all_hashes_a, fingerprints_a, all_hashes_b, pos, matches, bloom_skips, match_freq_map, result, scans, call>>

engine == <<n, w, bloom_filter, hash_to_phrase>>

locals == <<words_a, words_b, all_hashes_a, fingerprints_a, all_hashes_b, pos, matches, bloom_skips, match_freq_map>>

-----------------------------------------------------------------------------
(* Bounds of the model *)

MaxTokens == 2

MaxScans == 2

MaxN == 2

MaxW == 2

\* winnow on its own: hash lists of up to MaxHashes values in 1 .. MaxHashVal
MaxHashes == 4

MaxHashVal == 2

\* ranking: documents of up to MaxEntries distinct one-letter words, each up
\* to MaxFreq times in document B
MaxEntries == 6

MaxFreq == 2

\* get_top_k_matches on its own: k in 1 .. MaxK
MaxK == 5

-----------------------------------------------------------------------------
(* Program constants *)

mod1 == 1000000007

base == 131

bloom_size == 1000000

TopK == 5

-----------------------------------------------------------------------------
(* Sequence helpers with Python's meaning *)

Min2(a, b) == IF a < b THEN a ELSE b

Max2(a, b) == IF a > b THEN a ELSE b

\* s[lo:hi] for 0 <= lo, 0 <= hi
PySlice(s, lo, hi) == SubSeq(s, lo + 1, Min2(hi, Len(s)))

\* range(k): 0 .. k-1, empty when k <= 0
PyRange(k) == 0 .. (k - 1)

SeqToSet(s) == {s[i] : i \in DOMAIN s}

\* min(window) of a non-empty sequence of integers
SeqMin(s) == CHOOSE m \in SeqToSet(s) : \A x \in SeqToSet(s) : m <= x

\* dict[k] = v
Put(m, k, v) == [x \in (DOMAIN m) \cup {k} |-> IF x = k THEN v ELSE m[x]]

EmptyMap == [x \in {} |-> 0]

-----------------------------------------------------------------------------
(* preprocess: re.sub(r'[^\w\s]', '', text.lower()).split() *)

Space == 32

IsUpper(c) == c >= 65 /\ c <= 90

Lower(c) == IF IsUpper(c) THEN c + 32 ELSE c

IsWordChar(c) == (c >= 97 /\ c <= 122) \/ (c >= 65 /\ c <= 90) \/ (c >= 48 /\ c <= 57) \/ c = 95

IsSpace(c) == c = 32 \/ (c >= 9 /\ c <= 13)

LowerText(text) == [i \in DOMAIN text |-> Lower(text[i])]

StripPunct(text) == SelectSeq(text, LAMBDA c : IsWordChar(c) \/ IsSpace(c))

RECURSIVE SplitFrom(_, _, _, _)
\* str.split(): tokens are the maximal runs of non-whitespace characters
SplitFrom(text, i, cur, acc) ==
  IF i > Len(text)
    THEN (IF cur = <<>> THEN acc ELSE Append(acc, cur))
    ELSE LET cur2 == IF IsSpace(text[i]) THEN <<>> ELSE Append(cur, text[i])
             acc2 == IF IsSpace(text[i]) /\ cur # <<>> THEN Append(acc, cur) ELSE acc
         IN IF Len(cur2) + Len(acc2) >= 0 THEN SplitFrom(text, i + 1, cur2, acc2) ELSE acc2

Split(text) == SplitFrom(text, 1, <<>>, <<>>)

preprocess(text) == Split(StripPunct(LowerText(text)))

-----------------------------------------------------------------------------
(* get_double_hash: polynomial hash, h1 = (h1 * base + ord(char)) % mod1 *)

\* bit k of the multiplier base (base < 256)
BaseBit(k) == (base \div (2 ^ k)) % 2

AddMod(x, y) == (x + y) % mod1

\* (h1 * base) % mod1 for 0 <= h1 < mod1, by binary multiplication, so that
\* no intermediate value exceeds 2 * mod1 (Python integers are unbounded,
\* the model's are 32 bits wide)
TimesBase(h1) ==
  LET x1 == h1
      x2 == AddMod(x1, x1)
      x4 == AddMod(x2, x2)
      x8 == AddMod(x4, x4)
      x16 == AddMod(x8, x8)
      x32 == AddMod(x16, x16)
      x64 == AddMod(x32, x32)
      x128 == AddMod(x64, x64)
      s0 == IF BaseBit(0) = 1 THEN x1 ELSE 0
      s1 == IF BaseBit(1) = 1 THEN AddMod(s0, x2) ELSE s0
      s2 == IF BaseBit(2) = 1 THEN AddMod(s1, x4) ELSE s1
      s3 == IF BaseBit(3) = 1 THEN AddMod(s2, x8) ELSE s2
      s4 == IF BaseBit(4) = 1 THEN AddMod(s3, x16) ELSE s3
      s5 == IF BaseBit(5) = 1 THEN AddMod(s4, x32) ELSE s4
      s6 == IF BaseBit(6) = 1 THEN AddMod(s5, x64) ELSE s5
  IN IF BaseBit(7) = 1 THEN AddMod(s6, x128) ELSE s6

RECURSIVE HashFrom(_, _, _)
HashFrom(phrase, i, h1) ==
  IF i > Len(phrase) THEN h1
  ELSE LET nxt == (TimesBase(h1) + phrase[i]) % mod1
       IN IF nxt >= 0 THEN HashFrom(phrase, i + 1, nxt) ELSE nxt

\* the value get_double_hash returns
HashOf(phrase) == HashFrom(phrase, 1, 0)

RECURSIVE JoinFrom(_, _)
\* " ".join(words)
JoinFrom(words, i) ==
  IF i > Len(words) THEN <<>>
  ELSE IF i = Len(words) THEN words[i]
  ELSE words[i] \o <<Space>> \o JoinFrom(words, i + 1)

Join(words) == JoinFrom(words, 1)

\* [" ".join(words[i:i+n]) for i in range(len(words) - n + 1)]
Shingles(words, nn) == [k \in 1 .. Max2(Len(words) - nn + 1, 0) |-> Join(PySlice(words, k - 1, k - 1 + nn))]

\* [self.get_double_hash(s) for s in shingles]: the returned list
ShingleHashes(words, nn) == [k \in DOMAIN Shingles(words, nn) |-> HashOf(Shingles(words, nn)[k])]

RECURSIVE RecordPhrases_KeepFirst(_, _, _)
\* Mutation of RecordPhrases: a hash already recorded keeps its first phrase
RecordPhrases_KeepFirst(map, sh, i) ==
  IF i > Len(sh) THEN map
  ELSE IF HashOf(sh[i]) \in DOMAIN map THEN RecordPhrases_KeepFirst(map, sh, i + 1)
  ELSE RecordPhrases_KeepFirst(Put(map, HashOf(sh[i]), sh[i]), sh, i + 1)

RECURSIVE RecordPhrases(_, _, _)
\* the side effect of those calls on hash_to_phrase, in call order
RecordPhrases(map, sh, i) ==
  IF i > Len(sh) THEN map
  ELSE RecordPhrases(Put(map, HashOf(sh[i]), sh[i]), sh, i + 1)

-----------------------------------------------------------------------------
(* winnow *)

\* min(window) raises ValueError on an empty window
WinnowRaises(hashes, ww) ==
  /\ ~(Len(hashes) < ww)
  /\ \E i \in PyRange(Len(hashes) - ww + 1) : PySlice(hashes, i, i + ww) = <<>>

\* Mutation of winnow: the window advances by w instead of by 1
winnow_Stride(hashes, ww) ==
  IF Len(hashes) < ww
    THEN SeqToSet(hashes)
    ELSE {SeqMin(PySlice(hashes, i, i + ww)) : i \in {j \in PyRange(Len(hashes) - ww + 1) : j % ww = 0}}

winnow(hashes, ww) ==
  IF Len(hashes) < ww
    THEN SeqToSet(hashes)
    ELSE {SeqMin(PySlice(hashes, i, i + ww)) : i \in PyRange(Len(hashes) - ww + 1)}

-----------------------------------------------------------------------------
(* get_top_k_matches: heapq on (frequency, hash) tuples; list position p of *)
(* Python is index p + 1 here                                               *)

\* tuple comparison (freq, h) < (freq', h')
TupleLess(a, b) == a[1] < b[1] \/ (a[1] = b[1] /\ a[2] < b[2])

RECURSIVE SiftDownLoop(_, _, _, _)
SiftDownLoop(heap, startpos, p, newitem) ==
  IF p > startpos
    THEN LET parentpos == (p - 1) \div 2
             parent == heap[parentpos + 1]
         IN IF TupleLess(newitem, parent)
              THEN SiftDownLoop([heap EXCEPT ![p + 1] = parent], startpos, parentpos, newitem)
              ELSE [heap EXCEPT ![p + 1] = newitem]
    ELSE [heap EXCEPT ![p + 1] = newitem]

\* heapq._siftdown(heap, startpos, pos)
siftdown(heap, startpos, p) == SiftDownLoop(heap, startpos, p, heap[p + 1])

RECURSIVE SiftUpLoop(_, _, _)
\* the loop of heapq._siftup: bubbles the smaller child up; returns the heap
\* and the leaf position reached
SiftUpLoop(heap, p, endpos) ==
  LET childpos == 2 * p + 1
      rightpos == childpos + 1
      c == IF rightpos < endpos /\ ~TupleLess(heap[childpos + 1], heap[rightpos + 1])
             THEN rightpos ELSE childpos
  IN IF childpos < endpos
       THEN SiftUpLoop([heap EXCEPT ![p + 1] = heap[c + 1]], c, endpos)
       ELSE <<heap, p>>

\* heapq._siftup(heap, pos)
siftup(heap, p) ==
  LET newitem == heap[p + 1]
      r == SiftUpLoop(heap, p, Len(heap))
  IN siftdown([r[1] EXCEPT ![r[2] + 1] = newitem], p, r[2])

heappush(heap, item) == siftdown(Append(heap, item), 0, Len(heap))

\* heapreplace on a non-empty heap
heapreplace(heap, item) == siftup([heap EXCEPT ![1] = item], 0)

\* Mutation of TopKStep: a frequency equal to the minimum evicts it
TopKStep_TiesEvict(heap, h, freq, k) ==
  IF Len(heap) < k THEN heappush(heap, <<freq, h>>)
  ELSE IF freq >= heap[1][1] THEN heapreplace(heap, <<freq, h>>)
  ELSE heap

\* one iteration of the loop over match_freq_map.items()
TopKStep(heap, h, freq, k) ==
  IF Len(heap) < k THEN heappush(heap, <<freq, h>>)
  ELSE IF freq > heap[1][1] THEN heapreplace(heap, <<freq, h>>)
  ELSE heap

RECURSIVE TopKLoop(_, _, _, _)
TopKLoop(items, i, heap, k) ==
  IF i > Len(items) THEN heap
  ELSE TopKLoop(items, i + 1, TopKStep(heap, items[i][1], items[i][2], k), k)

RECURSIVE InsertDesc(_, _, _)
\* position of item in a stable descending order: behind every element whose
\* key is >= its own
InsertDesc(sorted, item, i) ==
  IF i > Len(sorted) THEN Append(sorted, item)
  ELSE IF sorted[i][1] < item[1]
    THEN SubSeq(sorted, 1, i - 1) \o <<item>> \o SubSeq(sorted, i, Len(sorted))
    ELSE InsertDesc(sorted, item, i + 1)

RECURSIVE SortDescFrom(_, _, _)
SortDescFrom(heap, i, acc) ==
  IF i > Len(heap) THEN acc
  ELSE SortDescFrom(heap, i + 1, InsertDesc(acc, heap[i], 1))

\* Mutation of SortDesc: the heap is returned in heap order
SortDesc_HeapOrder(heap) == heap

\* sorted(heap, key=lambda x: x[0], reverse=True): stable
SortDesc(heap) == SortDescFrom(heap, 1, <<>>)

get_top_k_matches(items, k) == SortDesc(TopKLoop(items, 1, <<>>, k))

-----------------------------------------------------------------------------
(* Inputs: raw texts built from a few raw words.  "Ejtikd," and "aafeaz"   *)
(* normalise to two words with the same polynomial hash (8013459); "Fa!"   *)
(* normalises to a word with another hash (13459) and the same filter      *)
(* index; "b" has another index; "--" normalises to nothing.               *)

RawWords == { <<69, 106, 116, 105, 107, 100, 44>>, <<97, 97, 102, 101, 97, 122>>, <<70, 97, 33>>, <<98>>, <<45, 45>> }

RawSeqs == UNION {[1 .. k -> RawWords] : k \in 0 .. MaxTokens}

Texts == {Join(s) : s \in RawSeqs}

\* preprocess, tabulated over the input texts
Tokenized == [t \in Texts |-> preprocess(t)]

NVals == 0 .. MaxN

WVals == 0 .. MaxW

\* "Unknown"
Unknown == <<85, 110, 107, 110, 111, 119, 110>>

NoCall == [op |-> "none"]

\* what the caller of execute_scan holds: nothing yet, the call in progress,
\* the value None, or an exception raised out of the call
NoResult == [kind |-> "none"]

Running == [kind |-> "running"]

ReturnsNone == [kind |-> "None"]

RaisesValueError == [kind |-> "ValueError"]

-----------------------------------------------------------------------------
(* The steps of execute_scan, as functions of the values they read *)

\* Mutation of Insufficient: only document A is measured
Insufficient_OnlyA(wa, wb, nn) == Len(wa) < nn

\* line 62: the early return
Insufficient(wa, wb, nn) == Len(wa) < nn \/ Len(wb) < nn

\* Mutation of Populate: the index is one too high
Populate_OffByOne(bf, fps) == bf \cup {(f + 1) % bloom_size : f \in fps}

\* lines 71-73: the filter after the population loop
Populate(bf, fps) == bf \cup {f % bloom_size : f \in fps}

\* Mutation of FilterAccepts: the flag is tested against 0
FilterAccepts_Inverted(bf, h) == (h % bloom_size) \notin bf

\* line 85: self.bloom_filter[idx] == 1
FilterAccepts(bf, h) == (h % bloom_size) \in bf

\* Mutation of Confirmed: the filter's answer is taken as membership
Confirmed_Unchecked(fps, h) == TRUE

\* line 86: h in fingerprints_a
Confirmed(fps, h) == h \in fps

\* Mutation of Tally: a repeated hash is stored with count 1 again
Tally_NoIncrement(items, h) ==
  IF \E i \in DOMAIN items : items[i][1] = h
    THEN [i \in DOMAIN items |-> IF items[i][1] = h THEN <<h, 1>> ELSE items[i]]
    ELSE Append(items, <<h, 1>>)

\* line 88: match_freq_map[h] = match_freq_map.get(h, 0) + 1
Tally(items, h) ==
  IF \E i \in DOMAIN items : items[i][1] = h
    THEN [i \in DOMAIN items |-> IF items[i][1] = h THEN <<h, items[i][2] + 1>> ELSE items[i]]
    ELSE Append(items, <<h, 1>>)

\* lines 84-90: the body of the loop over all_hashes_b, on the three counters
TestOne(bf, fps, h, acc) ==
  IF FilterAccepts(bf, h)
    THEN IF Confirmed(fps, h)
           THEN [matches |-> acc.matches + 1, bloom_skips |-> acc.bloom_skips, match_freq_map |-> Tally(acc.match_freq_map, h)]
           ELSE acc
    ELSE [acc EXCEPT !.bloom_skips = acc.bloom_skips + 1]

\* lines 94-97: top_k_formatted
Format(top_k_raw, map) ==
  [i \in DOMAIN top_k_raw |->
     [phrase |-> IF top_k_raw[i][2] \in DOMAIN map THEN map[top_k_raw[i][2]] ELSE Unknown,
      count |-> top_k_raw[i][1]]]

\* line 99: the score, kept as the exact fraction <<numerator, denominator>>
\* of (matches / fps) * 100
Score(m, fps) == IF fps > 0 THEN <<m * 100, fps>> ELSE <<0, 1>>

\* lines 100-106
ScanResult(m, skips, fps, items, map) ==
  [kind |-> "ScanResult",
   score |-> Score(m, Cardinality(fps)),
   matches |-> m,
   skips |-> skips,
   fps |-> Cardinality(fps),
   top_k |-> Format(get_top_k_matches(items, TopK), map)]

-----------------------------------------------------------------------------
(* State machine *)

Init ==
  /\ pc = "new"
  /\ n = 0
  /\ w = 0
  /\ bloom_filter = {}
  /\ hash_to_phrase = EmptyMap
  /\ words_a = <<>>
  /\ words_b = <<>>
  /\ all_hashes_a = <<>>
  /\ fingerprints_a = {}
  /\ all_hashes_b = <<>>
  /\ pos = 0
  /\ matches = 0
  /\ bloom_skips = 0
  /\ match_freq_map = <<>>
  /\ result = NoResult
  /\ scans = 0
  /\ call = NoCall

\* TextGuardEngine(n, w)
Construct(nn, ww) ==
  /\ pc = "new"
  /\ n' = nn
  /\ w' = ww
  /\ bloom_filter' = {}
  /\ hash_to_phrase' = EmptyMap
  /\ pc' = "idle"
  /\ UNCHANGED <<locals, result, scans, call>>

\* execute_scan(doc_a, doc_b), lines 59-63
BeginScan(doc_a, doc_b) ==
  /\ pc \in {"idle", "returned"}
  /\ scans' = scans + 1
  /\ words_a' = Tokenized[doc_a]
  /\ words_b' = Tokenized[doc_b]
  /\ all_hashes_a' = <<>>
  /\ fingerprints_a' = {}
  /\ all_hashes_b' = <<>>
  /\ pos' = 0
  /\ matches' = 0
  /\ bloom_skips' = 0
  /\ match_freq_map' = <<>>
  /\ IF Insufficient(words_a', words_b', n)
       THEN result' = ReturnsNone /\ pc' = "returned"
       ELSE result' = Running /\ pc' = "hash_a"
  /\ UNCHANGED <<engine, call>>

\* lines 66-68
HashA ==
  /\ pc = "hash_a"
  /\ all_hashes_a' = ShingleHashes(words_a, n)
  /\ hash_to_phrase' = RecordPhrases(hash_to_phrase, Shingles(words_a, n), 1)
  /\ IF WinnowRaises(all_hashes_a', w)
       THEN fingerprints_a' = fingerprints_a /\ result' = RaisesValueError /\ pc' = "returned"
       ELSE fingerprints_a' = winnow(all_hashes_a', w) /\ result' = result /\ pc' = "populate"
  /\ UNCHANGED <<n, w, bloom_filter, words_a, words_b, all_hashes_b, pos, matches, bloom_skips, match_freq_map, scans, call>>

\* lines 71-73
PopulateFilter ==
  /\ pc = "populate"
  /\ bloom_filter' = Populate(bloom_filter, fingerprints_a)
  /\ pc' = "hash_b"
  /\ UNCHANGED <<n, w, hash_to_phrase, locals, result, scans, call>>

\* lines 76-81
HashB ==
  /\ pc = "hash_b"
  /\ all_hashes_b' = ShingleHashes(words_b, n)
  /\ hash_to_phrase' = RecordPhrases(hash_to_phrase, Shingles(words_b, n), 1)
  /\ matches' = 0
  /\ bloom_skips' = 0
  /\ match_freq_map' = <<>>
  /\ pos' = 0
  /\ pc' = "test_b"
  /\ UNCHANGED <<n, w, bloom_filter, words_a, words_b, all_hashes_a, fingerprints_a, result, scans, call>>

\* lines 83-90: one iteration of the loop over all_hashes_b
TestB ==
  /\ pc = "test_b"
  /\ pos < Len(all_hashes_b)
  /\ LET acc == TestOne(bloom_filter, fingerprints_a, all_hashes_b[pos + 1],
                         [matches |-> matches, bloom_skips |-> bloom_skips, match_freq_map |-> match_freq_map])
     IN /\ matches' = acc.matches
        /\ bloom_skips' = acc.bloom_skips
        /\ match_freq_map' = acc.match_freq_map
  /\ pos' = pos + 1
  /\ UNCHANGED <<engine, pc, words_a, words_b, all_hashes_a, fingerprints_a, all_hashes_b, result, scans, call>>

\* lines 93-106
Rank ==
  /\ pc = "test_b"
  /\ pos = Len(all_hashes_b)
  /\ result' = ScanResult(matches, bloom_skips, fingerprints_a, match_freq_map, hash_to_phrase)
  /\ pc' = "returned"
  /\ UNCHANGED <<engine, locals, scans, call>>

Next ==
  \/ \E nn \in NVals, ww \in WVals : Construct(nn, ww)
  \/ scans < MaxScans /\ \E doc_a \in Texts, doc_b \in Texts : BeginScan(doc_a, doc_b)
  \/ HashA
  \/ PopulateFilter
  \/ HashB
  \/ TestB
  \/ Rank

Spec == Init /\ [][Next]_vars

-----------------------------------------------------------------------------
(* Spec: one engine, constructed with any n in NVals and w in WVals, runs  *)
(* up to MaxScans scans on texts of up to MaxTokens raw words.             *)

\* The scan holds a result record
Returned == pc = "returned" /\ result.kind = "ScanResult"

\* number of positions of a hash list whose value satisfies a membership
CountIn(hashes, upto, S) == Cardinality({i \in 1 .. upto : hashes[i] \in S})

RECURSIVE MatchLoop(_, _, _, _, _)
\* lines 79-90 run to completion from position i
MatchLoop(bf, fps, hashes, i, acc) ==
  IF i > Len(hashes) THEN acc
  ELSE MatchLoop(bf, fps, hashes, i + 1, TestOne(bf, fps, hashes[i], acc))

\* execute_scan on an engine whose filter holds bf and whose phrase map is map
ScanOn(bf, map, nn, ww, wa, wb) ==
  LET fps == winnow(ShingleHashes(wa, nn), ww)
      bf2 == Populate(bf, fps)
      map2 == RecordPhrases(RecordPhrases(map, Shingles(wa, nn), 1), Shingles(wb, nn), 1)
      acc == MatchLoop(bf2, fps, ShingleHashes(wb, nn), 1, [matches |-> 0, bloom_skips |-> 0, match_freq_map |-> <<>>])
  IN ScanResult(acc.matches, acc.bloom_skips, fps, acc.match_freq_map, map2)

\* C1: while a scan tests document B's shingles, the set bits of the filter
\* are exactly the indices f mod bloom_size of this scan's fingerprints_a:
\* no bit is left over from an earlier scan.
C1_FilterResetPerScan == pc = "test_b" => bloom_filter = {f % bloom_size : f \in fingerprints_a}

\* C2: the result of a scan is the result the same texts give on a freshly
\* constructed engine with the same n and w, whatever scans ran before.
C2_Deterministic == Returned => result = ScanOn({}, EmptyMap, n, w, words_a, words_b)

\* C8: an engine with n < 1 or w < 1 is rejected at construction, so no
\* engine exists, and no scan runs, with such a configuration.
C8_ConfigRejected == pc # "new" => (n >= 1 /\ w >= 1)

\* no shingle of B has the hash of a shingle of A
NoCommonHash == SeqToSet(all_hashes_a) \cap SeqToSet(all_hashes_b) = {}

\* A and B share no identical sequence of n consecutive tokens
NoSharedNGram ==
  \A i \in PyRange(Len(words_a) - n + 1), j \in PyRange(Len(words_b) - n + 1) :
    PySlice(words_a, i, i + n) # PySlice(words_b, j, j + n)

NothingMatched == result.matches = 0 /\ result.score[1] = 0 /\ result.top_k = <<>>

\* C4 as stated: matches <= number of B shingles, and nothing matches when
\* A and B share no identical n-token sequence.
C4_Original ==
  Returned => /\ result.matches <= Len(words_b) - n + 1
              /\ (NoSharedNGram => NothingMatched)

\* C4 amended: matches <= number of B shingles, and nothing matches when no
\* shingle of B has the hash of a shingle of A (two different n-token
\* sequences can have the same hash, and then they do match).
C4_MatchBound ==
  Returned => /\ result.matches <= Len(words_b) - n + 1
              /\ (NoCommonHash => NothingMatched)

\* C4 witness: a scan in which the filter accepted every shingle of B and
\* none has the hash of a shingle of A
C4_Witness ==
  /\ Returned
  /\ NoCommonHash
  /\ Len(all_hashes_b) > 0
  /\ result.skips = 0
  /\ result.matches = 0

\* C5: once the filter is populated, every hash of fingerprints_a tests
\* positive; a B shingle whose hash is in fingerprints_a is never counted as
\* a filter reject; and no bit of the filter is ever cleared.
C5_FilterSound ==
  /\ []((pc \in {"hash_b", "test_b"} \/ Returned) =>
          /\ \A h \in fingerprints_a : FilterAccepts(bloom_filter, h)
          /\ bloom_skips <= pos - CountIn(all_hashes_b, pos, fingerprints_a))
  /\ [][/\ bloom_filter \subseteq bloom_filter'
        /\ (pc = "test_b" /\ pos' = pos + 1 /\ all_hashes_b[pos + 1] \in fingerprints_a)
             => bloom_skips' = bloom_skips]_vars

\* C5 witness: a finished pass over B in which a shingle with a fingerprint
\* hash was accepted and another shingle was rejected by the filter
C5_Witness ==
  /\ pc = "test_b"
  /\ pos = Len(all_hashes_b)
  /\ CountIn(all_hashes_b, pos, fingerprints_a) > 0
  /\ bloom_skips > 0

SameDocs == words_a = words_b

DistinctHashes(hashes) == Cardinality(SeqToSet(hashes)) = Len(hashes)

\* C7 as stated: identical documents give matches > 0, fps >= 1 and
\* matches = fps, that is score = 100.
C7_Original ==
  (Returned /\ SameDocs) =>
     /\ result.matches > 0
     /\ result.fps >= 1
     /\ result.matches = result.fps
     /\ result.score[1] = 100 * result.score[2]

\* C7 amended: identical documents give matches > 0, fps >= 1 and
\* matches >= fps, that is score >= 100; matches = fps and score = 100 when
\* no two shingles of the document have the same hash.
C7_IdenticalDocs ==
  (Returned /\ SameDocs) =>
     /\ result.matches > 0
     /\ result.fps >= 1
     /\ result.matches >= result.fps
     /\ result.score[1] >= 100 * result.score[2]
     /\ DistinctHashes(all_hashes_b) =>
          (result.matches = result.fps /\ result.score[1] = 100 * result.score[2])

\* C7 witness: identical documents of two distinct shingles
C7_Witness ==
  /\ Returned
  /\ SameDocs
  /\ Len(all_hashes_b) >= 2
  /\ DistinctHashes(all_hashes_b)
  /\ result.matches = result.fps

\* C9: a call of execute_scan in which a document has fewer than n tokens
\* returns None, without raising and without hashing: bloom_filter and
\* hash_to_phrase are as before the call.
C9_InsufficientInput ==
  [][(scans' = scans + 1 /\ (Len(words_a') < n \/ Len(words_b') < n)) =>
       /\ result' = ReturnsNone
       /\ pc' = "returned"
       /\ bloom_filter' = bloom_filter
       /\ hash_to_phrase' = hash_to_phrase
       /\ all_hashes_a' = <<>>
       /\ all_hashes_b' = <<>>]_vars

\* C9 witness: on an engine an earlier scan has used, a scan whose document
\* B alone is too short has returned None
C9_Witness ==
  /\ pc = "returned"
  /\ result = ReturnsNone
  /\ bloom_filter # {}
  /\ Len(words_a) >= n
  /\ Len(words_b) < n

\* the count the tally holds for hash h
TallyOf(items, h) == IF \E i \in DOMAIN items : items[i][1] = h THEN (CHOOSE c \in {items[i][2] : i \in {j \in DOMAIN items : items[j][1] = h}} : TRUE) ELSE 0

\* C10: whatever the filter holds, matches and the per-hash tally are those
\* of a direct pass over B's shingle hashes that counts membership in
\* fingerprints_a.
C10_FalsePositivesHidden ==
  (pc = "test_b" \/ Returned) =>
     /\ matches = CountIn(all_hashes_b, pos, fingerprints_a)
     /\ \A h \in SeqToSet(all_hashes_b) \cup {match_freq_map[i][1] : i \in DOMAIN match_freq_map} :
          TallyOf(match_freq_map, h) = CountIn(all_hashes_b, pos, {h} \cap fingerprints_a)
     /\ Cardinality({match_freq_map[i][1] : i \in DOMAIN match_freq_map}) = Len(match_freq_map)
     /\ Returned => result.matches = CountIn(all_hashes_b, Len(all_hashes_b), fingerprints_a)

\* C10 witness: on an engine an earlier scan has used, the filter has accepted
\* a B shingle whose hash is not in fingerprints_a, by an index collision
\* with a fingerprint and by a bit an earlier scan left
C10_Witness ==
  /\ pc = "test_b"
  /\ pos = Len(all_hashes_b)
  /\ \E i \in 1 .. pos :
       /\ all_hashes_b[i] \notin fingerprints_a
       /\ (all_hashes_b[i] % bloom_size) \in {f % bloom_size : f \in fingerprints_a}
  /\ \E i \in 1 .. pos :
       /\ all_hashes_b[i] \notin fingerprints_a
       /\ FilterAccepts(bloom_filter, all_hashes_b[i])
       /\ (all_hashes_b[i] % bloom_size) \notin {f % bloom_size : f \in fingerprints_a}

-----------------------------------------------------------------------------
(* SpecWinnow: winnow applied, on an engine constructed with w >= 1, to two *)
(* hash lists one after the other.                                          *)

HashLists == UNION {[1 .. k -> 1 .. MaxHashVal] : k \in 0 .. MaxHashes}

InitWinnow ==
  /\ pc = "idle"
  /\ n = 1
  /\ w \in 1 .. MaxW
  /\ bloom_filter = {}
  /\ hash_to_phrase = EmptyMap
  /\ words_a = <<>>
  /\ words_b = <<>>
  /\ all_hashes_a = <<>>
  /\ fingerprints_a = {}
  /\ all_hashes_b = <<>>
  /\ pos = 0
  /\ matches = 0
  /\ bloom_skips = 0
  /\ match_freq_map = <<>>
  /\ result = NoResult
  /\ scans = 0
  /\ call \in {[op |-> "winnow", args |-> <<h1, h2>>, rets |-> <<>>] : h1 \in HashLists, h2 \in HashLists}

\* self.winnow(hashes) on the next argument
CallWinnow ==
  /\ call.op = "winnow"
  /\ Len(call.rets) < Len(call.args)
  /\ ~WinnowRaises(call.args[Len(call.rets) + 1], w)
  /\ call' = [call EXCEPT !.rets = Append(@, winnow(call.args[Len(call.rets) + 1], w))]
  /\ UNCHANGED <<engine, pc, locals, result, scans>>

NextWinnow == CallWinnow

SpecWinnow == InitWinnow /\ [][NextWinnow]_vars

\* the two lists contain an identical run of ww consecutive hashes (a longer
\* common run contains one of exactly ww)
SharedRun(h1, h2, ww) ==
  \E i \in 1 .. (Len(h1) - ww + 1), j \in 1 .. (Len(h2) - ww + 1) :
    SubSeq(h1, i, i + ww - 1) = SubSeq(h2, j, j + ww - 1)

WinnowDone == call.op = "winnow" /\ Len(call.rets) = 2

\* C3: two hash lists that contain an identical run of at least w consecutive
\* hashes have, winnowed independently with the same w >= 1, a fingerprint in
\* common.
C3_WinnowGuarantee ==
  (WinnowDone /\ SharedRun(call.args[1], call.args[2], w)) => call.rets[1] \cap call.rets[2] # {}

\* C3 witness: two different lists sharing a run of w >= 2 hashes, neither of
\* which keeps all its hashes
C3_Witness ==
  /\ WinnowDone
  /\ w >= 2
  /\ call.args[1] # call.args[2]
  /\ SharedRun(call.args[1], call.args[2], w)
  /\ call.rets[1] # SeqToSet(call.args[1])
  /\ call.rets[2] # SeqToSet(call.args[2])
  /\ call.rets[1] \cap call.rets[2] # {}

-----------------------------------------------------------------------------
(* SpecLetters: one scan, on an engine constructed with n = 1 and w >= 1,  *)
(* of documents made of the one-letter words "a", "b", ...: document A has *)
(* the first MaxEntries letters once each, document B has up to MaxEntries *)
(* letters, in alphabetical or reverse order, each up to MaxFreq times.    *)

Letter(i) == <<96 + i>>

RECURSIVE Repeat(_, _)
Repeat(x, k) == IF k = 0 THEN <<>> ELSE <<x>> \o Repeat(x, k - 1)

RECURSIVE LetterRuns(_, _, _)
\* the words of document B: letter order[i], freq[i] times, for i = 1, 2, ...
LetterRuns(order, freq, i) ==
  IF i > Len(order) THEN <<>>
  ELSE Repeat(Letter(order[i]), freq[i]) \o LetterRuns(order, freq, i + 1)

LetterOrders(k) == {[i \in 1 .. k |-> i], [i \in 1 .. k |-> k + 1 - i]}

LetterTextA == Join([i \in 1 .. MaxEntries |-> Letter(i)])

LetterTextsB == {Join(LetterRuns(o, f, 1)) : o \in UNION {LetterOrders(k) : k \in 0 .. MaxEntries}, f \in [1 .. MaxEntries -> 1 .. MaxFreq]}

InitLetters ==
  /\ pc = "idle"
  /\ n = 1
  /\ w \in 1 .. MaxW
  /\ bloom_filter = {}
  /\ hash_to_phrase = EmptyMap
  /\ words_a = <<>>
  /\ words_b = <<>>
  /\ all_hashes_a = <<>>
  /\ fingerprints_a = {}
  /\ all_hashes_b = <<>>
  /\ pos = 0
  /\ matches = 0
  /\ bloom_skips = 0
  /\ match_freq_map = <<>>
  /\ result = NoResult
  /\ scans = 0
  /\ call = NoCall

\* execute_scan(doc_a, doc_b), lines 59-63, on texts outside Texts
BeginScanLetters(doc_a, doc_b) ==
  /\ pc = "idle"
  /\ scans' = scans + 1
  /\ words_a' = preprocess(doc_a)
  /\ words_b' = preprocess(doc_b)
  /\ all_hashes_a' = <<>>
  /\ fingerprints_a' = {}
  /\ all_hashes_b' = <<>>
  /\ pos' = 0
  /\ matches' = 0
  /\ bloom_skips' = 0
  /\ match_freq_map' = <<>>
  /\ IF Insufficient(words_a', words_b', n)
       THEN result' = ReturnsNone /\ pc' = "returned"
       ELSE result' = Running /\ pc' = "hash_a"
  /\ UNCHANGED <<engine, call>>

NextLetters ==
  \/ \E doc_b \in LetterTextsB : BeginScanLetters(LetterTextA, doc_b)
  \/ HashA
  \/ PopulateFilter
  \/ HashB
  \/ TestB
  \/ Rank

SpecLetters == InitLetters /\ [][NextLetters]_vars

\* the distinct hashes of B's shingles that are in fingerprints_a
MatchedHashes == SeqToSet(all_hashes_b) \cap fingerprints_a

\* C6: the ranked list of a result has at most min(K, number of distinct
\* matched hashes) entries, K = 5, and its counts never increase from one
\* entry to the next.
C6_TopKBound ==
  Returned =>
     /\ Len(result.top_k) <= Min2(TopK, Cardinality(MatchedHashes))
     /\ \A i \in 1 .. (Len(result.top_k) - 1) : result.top_k[i].count >= result.top_k[i + 1].count

\* C6 witness: more than K distinct hashes matched, K entries are ranked, and
\* the first count is above the last
C6_Witness ==
  /\ Returned
  /\ Cardinality(MatchedHashes) > TopK
  /\ Len(result.top_k) = TopK
  /\ result.top_k[1].count > result.top_k[TopK].count

-----------------------------------------------------------------------------
(* SpecTopK: get_top_k_matches(match_freq_map, k), one loop iteration at a *)
(* time, on frequency maps of up to MaxEntries keys 1, 2, ..., inserted in *)
(* ascending or descending key order, with counts in 1 .. MaxFreq.         *)

FreqMaps == {[i \in 1 .. Len(o) |-> <<o[i], f[i]>>] : o \in UNION {LetterOrders(j) : j \in 0 .. MaxEntries}, f \in [1 .. MaxEntries -> 1 .. MaxFreq]}

InitTopK ==
  /\ pc = "idle"
  /\ n = 1
  /\ w = 1
  /\ bloom_filter = {}
  /\ hash_to_phrase = EmptyMap
  /\ words_a = <<>>
  /\ words_b = <<>>
  /\ all_hashes_a = <<>>
  /\ fingerprints_a = {}
  /\ all_hashes_b = <<>>
  /\ pos = 0
  /\ matches = 0
  /\ bloom_skips = 0
  /\ match_freq_map = <<>>
  /\ result = NoResult
  /\ scans = 0
  /\ call \in {[op |-> "top_k", items |-> m, k |-> k, i |-> 1, heap |-> <<>>, done |-> FALSE, ret |-> <<>>] : m \in FreqMaps, k \in 1 .. MaxK}

\* lines 49-53: one iteration of the loop
TopKIterate ==
  /\ call.op = "top_k"
  /\ ~call.done
  /\ call.i <= Len(call.items)
  /\ call' = [call EXCEPT !.heap = TopKStep(call.heap, call.items[call.i][1], call.items[call.i][2], call.k),
                          !.i = call.i + 1]
  /\ UNCHANGED <<engine, pc, locals, result, scans>>

\* line 56: the return
TopKReturn ==
  /\ call.op = "top_k"
  /\ ~call.done
  /\ call.i > Len(call.items)
  /\ call' = [call EXCEPT !.done = TRUE, !.ret = SortDesc(call.heap)]
  /\ UNCHANGED <<engine, pc, locals, result, scans>>

NextTopK == TopKIterate \/ TopKReturn

SpecTopK == InitTopK /\ [][NextTopK]_vars

TopKDone == call.op = "top_k" /\ call.done

\* the entries <<freq, h>> of the map that a list of such tuples leaves out
LeftOut(items, tuples) == {<<items[i][2], items[i][1]>> : i \in DOMAIN items} \ SeqToSet(tuples)

\* the smallest frequency of a non-empty list of <<freq, h>> tuples
MinFreq(tuples) == CHOOSE f \in {tuples[i][1] : i \in DOMAIN tuples} : \A i \in DOMAIN tuples : f <= tuples[i][1]

\* C11: for k >= 1, get_top_k_matches returns min(k, size of the map)
\* entries of the map, no entry left out is more frequent than a returned
\* one, and on a full heap an entry evicts the minimum only when its
\* frequency is strictly greater: one that equals the minimum leaves the
\* heap as it is.
C11_TopKSelection ==
  /\ [](TopKDone =>
          /\ Len(call.ret) = Min2(call.k, Len(call.items))
          /\ Cardinality(SeqToSet(call.ret)) = Len(call.ret)
          /\ SeqToSet(call.ret) \subseteq {<<call.items[i][2], call.items[i][1]>> : i \in DOMAIN call.items}
          /\ \A e \in LeftOut(call.items, call.ret), r \in SeqToSet(call.ret) : e[1] <= r[1])
  /\ [][(call.op = "top_k" /\ call'.i = call.i + 1 /\ Len(call.heap) = call.k) =>
          IF call.items[call.i][2] > MinFreq(call.heap)
            THEN /\ <<call.items[call.i][2], call.items[call.i][1]>> \in SeqToSet(call'.heap)
                 /\ \E old \in SeqToSet(call.heap) :
                      /\ old[1] = MinFreq(call.heap)
                      /\ SeqToSet(call'.heap) = (SeqToSet(call.heap) \ {old}) \cup {<<call.items[call.i][2], call.items[call.i][1]>>}
            ELSE call'.heap = call.heap]_vars

\* C11 witness: the map has more than k >= 2 entries, an entry was evicted,
\* and an entry left out is as frequent as the least frequent returned one
C11_Witness ==
  /\ TopKDone
  /\ call.k >= 2
  /\ Len(call.items) > call.k
  /\ SeqToSet(call.ret) # {<<call.items[i][2], call.items[i][1]>> : i \in 1 .. call.k}
  /\ \E e \in LeftOut(call.items, call.ret) : e[1] = MinFreq(call.ret)
  /\ call.ret[1][1] > MinFreq(call.ret)

-----------------------------------------------------------------------------
(* Ranked phrases, under Spec *)

\* the <<freq, hash>> tuples behind the top_k list of the scan that returned
RankedRaw == get_top_k_matches(match_freq_map, TopK)

\* the last shingle of document B, by position, whose hash is h
IsLastShingleOfB(phrase, h) ==
  \E j \in DOMAIN all_hashes_b :
    /\ all_hashes_b[j] = h
    /\ Shingles(words_b, n)[j] = phrase
    /\ HashOf(phrase) = h
    /\ \A j2 \in DOMAIN all_hashes_b : j2 > j => all_hashes_b[j2] # h

\* C12: in every result, on a fresh engine or after earlier scans, the
\* phrase of each top_k entry is the text of the last shingle of the current
\* document B whose hash is the ranked hash: it is never "Unknown", and
\* never a text that only document A or an earlier scan put under that hash.
C12_PhraseProvenance ==
  Returned =>
    /\ Len(result.top_k) = Len(RankedRaw)
    /\ \A i \in DOMAIN result.top_k :
         /\ result.top_k[i].phrase # Unknown
         /\ IsLastShingleOfB(result.top_k[i].phrase, RankedRaw[i][2])

\* C12 witness: a second scan on the engine ranks a hash under which
\* document A holds another text, and an earlier shingle of B another text
\* too
C12_Witness ==
  /\ Returned
  /\ scans = 2
  /\ \E i \in DOMAIN result.top_k :
       /\ \E j \in DOMAIN all_hashes_a :
            /\ all_hashes_a[j] = RankedRaw[i][2]
            /\ Shingles(words_a, n)[j] # result.top_k[i].phrase
       /\ \E j \in DOMAIN all_hashes_b :
            /\ all_hashes_b[j] = RankedRaw[i][2]
            /\ Shingles(words_b, n)[j] # result.top_k[i].phrase

====
